---- MODULE Spec2Model ----
(***************************************************************************)
(* The problem generator of services/mathService.ts: generateProblem and   *)
(* its three synthesizers, as a state machine over the draws of            *)
(* Math.random().                                                          *)
(*                                                                         *)
(* A question is a sequence of tokens [k |-> kind, n |-> number].  The     *)
(* kinds of the displayed text are                                         *)
(*   "num" n      the literal n            "sq" n     n followed by a      *)
(*   "root" n     the root sign and n                 superscript two      *)
(*   "log2" n     log2(n)                  "log10" n  log10(n)             *)
(*   "+" "-"      plus, minus              "mul" "div" the times and the   *)
(*   "(" ")"      parentheses                         division sign        *)
(*   "x" "xsq"    the unknown, its square  "cx" n     n followed by x      *)
(*   "=" n        "= n. Find x"                                            *)
(* and the kinds of the text handed to the JavaScript evaluator are "num", *)
(* "+", "-", "*", "/", "(", ")", "pow" (Math.pow(n, 2)), "sqrt", "jlog2"   *)
(* and "jlog10" (Math.sqrt, Math.log2, Math.log10 of n).                   *)
(***************************************************************************)
EXTENDS Integers, Sequences, FiniteSets, TLC

VARIABLES
    pc,               \* "call", "arith", "linear", "done", "error", "scale",
                      \* "game"
    level,            \* generateProblem's argument
    settings,         \* [allowLinear, allowQuadratic]
    isZenMoment,
    effectiveLevel,
    numTerms,
    componentMaxVal,
    type,             \* "arithmetic", "linear", "quadratic"
    expression,       \* generateArithmeticProblem: the tokens of expression.join(' ')
    i,                \* loop index of the running synthesizer
    depth,            \* nested activations of generateArithmeticProblem
    x,                \* generateComplexLinearEquation: the secret solution
    currentVal,       \* generateComplexLinearEquation: the running value
    expressionParts,  \* generateComplexLinearEquation: the tokens of the text
    problem,          \* the MathProblem returned: [question, answer, level]
    tailCalls,        \* the engine replaces the activation of a call in tail
                      \* position (proper tail calls) instead of nesting it
    gameState,        \* App: [score, level, bestLevel, currentProblem, status]
    userInput,        \* App: the answer box against the problem on display:
                      \* "empty", "right" or "wrong"
    timers,           \* callbacks of setTimeout not yet run: [correct, wrong]
    generated         \* calls of generateProblem made by the game so far; a
                      \* problem is known by the number of its call

\* What the generator never writes.
frame == <<tailCalls, gameState, userInput, timers, generated>>

vars == <<pc, level, settings, isZenMoment, effectiveLevel, numTerms,
          componentMaxVal, type, expression, i, depth, x, currentVal,
          expressionParts, problem, frame>>

null == 0

----------------------------------------------------------------------------
(* Bounds of the model.                                                    *)

\* Math.floor(Math.random() * n) ranges over 0..n-1; for the n of an operand
\* the model draws the SampleLow smallest of these values and the largest.
SampleLow == 1

\* The call stack holds StackLimit activations of generateArithmeticProblem;
\* one more overflows it (the engine's limit, shrunk).
StackLimit == 2

\* The largest level the scaling walk visits, and the largest candidate
\* tried as a positive integer solution of a quadratic question.
MaxLevel == 1000100
MaxRoot == 40

\* The game is followed until the score reaches MaxScore, the level typed
\* into the jump box is at most MaxJump, at most MaxPending callbacks of
\* each kind wait at once, and the game calls generateProblem at most
\* MaxProblems times.
MaxScore == 30
MaxJump == 2
MaxPending == 2
MaxProblems == 4

----------------------------------------------------------------------------
(* Arithmetic helpers.                                                     *)

Min(a, b) == IF a < b THEN a ELSE b

Abs(a) == IF a < 0 THEN -a ELSE a

RECURSIVE Gcd(_, _)
Gcd(a, b) == IF b = 0 THEN a ELSE Gcd(b, a % b)

RECURSIVE Pow(_, _)
Pow(b, e) == IF e = 0 THEN 1 ELSE b * Pow(b, e - 1)

\* A number the evaluator works on: the fraction n/d in lowest terms, d > 0.
\* The levels modelled keep |n| below 2^31, where a double holds every
\* integer exactly and a quotient that is no integer is no integer as a
\* double either.
Rat(n, d) ==
    LET g == Gcd(Abs(n), Abs(d))
        s == IF d < 0 THEN -1 ELSE 1
    IN  [n |-> (s * n) \div g, d |-> (s * d) \div g]

Int2Rat(n) == [n |-> n, d |-> 1]

RAdd(a, b) == Rat(a.n * b.d + b.n * a.d, a.d * b.d)
RSub(a, b) == Rat(a.n * b.d - b.n * a.d, a.d * b.d)
RMul(a, b) == Rat(a.n * b.n, a.d * b.d)
\* JavaScript's division by zero gives an infinity: here a value that is no
\* integer.
RDiv(a, b) == IF b.n = 0 THEN [n |-> 1, d |-> 0] ELSE Rat(a.n * b.d, a.d * b.n)

IsInteger(a) == a.d = 1

----------------------------------------------------------------------------
(* The random source.                                                      *)

\* Math.random(), in hundredths: the values around every threshold the
\* generator compares a draw with.
Random == {0, 9, 10, 14, 15, 19, 20, 29, 30, 39, 40, 50, 51, 59, 60, 99}

\* Math.floor(Math.random() * n): 0..n-1, sampled at both ends.
Pick(n) == {k \in 0..(n - 1) : k < SampleLow \/ k = n - 1}

----------------------------------------------------------------------------
(* Tokens.                                                                 *)

Tok(kind, num) == [k |-> kind, n |-> num]
Sym(kind) == [k |-> kind, n |-> 0]

----------------------------------------------------------------------------
(* Reading a token sequence as an expression: parentheses first, then the  *)
(* multiplicative operators, then the additive ones, each from the left.   *)

AddOps == {"+", "-"}
MulOps == {"*", "/", "mul", "div"}

Leaf(t) == [k |-> "leaf", t |-> t]
Bin(op, l, r) == [k |-> "bin", op |-> op, l |-> l, r |-> r]

RECURSIVE ParseExpr(_, _), ParseTerm(_, _), ParseFactor(_, _)
RECURSIVE ExprRest(_, _, _), TermRest(_, _, _)

ParseFactor(ts, p) ==
    IF ts[p].k = "("
    THEN LET r == ParseExpr(ts, p + 1) IN [a |-> r.a, p |-> r.p + 1]
    ELSE [a |-> Leaf(ts[p]), p |-> p + 1]

TermRest(ts, l, p) ==
    IF p <= Len(ts) /\ ts[p].k \in MulOps
    THEN LET f == ParseFactor(ts, p + 1)
         IN  TermRest(ts, Bin(ts[p].k, l, f.a), f.p)
    ELSE [a |-> l, p |-> p]

ParseTerm(ts, p) ==
    LET f == ParseFactor(ts, p) IN TermRest(ts, f.a, f.p)

ExprRest(ts, l, p) ==
    IF p <= Len(ts) /\ ts[p].k \in AddOps
    THEN LET t == ParseTerm(ts, p + 1)
         IN  ExprRest(ts, Bin(ts[p].k, l, t.a), t.p)
    ELSE [a |-> l, p |-> p]

ParseExpr(ts, p) ==
    LET t == ParseTerm(ts, p) IN ExprRest(ts, t.a, t.p)

Parse(ts) == ParseExpr(ts, 1).a

\* Math.sqrt and the logarithms, on the arguments the generator builds.
Sqrt(n) == CHOOSE r \in 0..n : r * r = n
Log(b, n) == CHOOSE e \in 0..30 : Pow(b, e) = n

\* The text of the question rewritten for the evaluator.
ToEvalToken(t) ==
    CASE t.k = "mul"   -> Sym("*")
      [] t.k = "div"   -> Sym("/")
      [] t.k = "sq"    -> Tok("pow", t.n)
      [] t.k = "root"  -> Tok("sqrt", t.n)
      [] t.k = "log2"  -> Tok("jlog2", t.n)
      [] t.k = "log10" -> Tok("jlog10", t.n)
      [] OTHER         -> t

ToEvalString(ts) == [j \in 1..Len(ts) |-> ToEvalToken(ts[j])]

\* What the JavaScript evaluator returns for the rewritten text.
JSLeaf(t) ==
    CASE t.k = "num"    -> Int2Rat(t.n)
      [] t.k = "pow"    -> Int2Rat(t.n * t.n)
      [] t.k = "sqrt"   -> Int2Rat(Sqrt(t.n))
      [] t.k = "jlog2"  -> Int2Rat(Log(2, t.n))
      [] t.k = "jlog10" -> Int2Rat(Log(10, t.n))

RECURSIVE JSValue(_)
JSValue(a) ==
    IF a.k = "leaf" THEN JSLeaf(a.t)
    ELSE LET l == JSValue(a.l)
             r == JSValue(a.r)
         IN  CASE a.op = "+" -> RAdd(l, r)
               [] a.op = "-" -> RSub(l, r)
               [] a.op = "*" -> RMul(l, r)
               [] a.op = "/" -> RDiv(l, r)

JSEval(ts) == JSValue(Parse(ToEvalString(ts)))

\* The value a reader of the displayed question computes, with xv for x.
MathLeaf(t, xv) ==
    CASE t.k = "num"   -> Int2Rat(t.n)
      [] t.k = "sq"    -> Int2Rat(t.n * t.n)
      [] t.k = "root"  -> Int2Rat(Sqrt(t.n))
      [] t.k = "log2"  -> Int2Rat(Log(2, t.n))
      [] t.k = "log10" -> Int2Rat(Log(10, t.n))
      [] t.k = "x"     -> Int2Rat(xv)
      [] t.k = "xsq"   -> Int2Rat(xv * xv)
      [] t.k = "cx"    -> Int2Rat(t.n * xv)

RECURSIVE MathValue(_, _)
MathValue(a, xv) ==
    IF a.k = "leaf" THEN MathLeaf(a.t, xv)
    ELSE LET l == MathValue(a.l, xv)
             r == MathValue(a.r, xv)
         IN  CASE a.op = "+"   -> RAdd(l, r)
               [] a.op = "-"   -> RSub(l, r)
               [] a.op = "mul" -> RMul(l, r)
               [] a.op = "div" -> RDiv(l, r)

\* Solving f(x) = target for x, f a chain of operations on x with constant
\* right operands: the outermost operation is undone first.
RECURSIVE Unwind(_, _)
Unwind(a, target) ==
    IF a.k = "leaf" THEN target
    ELSE LET r == MathValue(a.r, 0)
         IN  CASE a.op = "+"   -> Unwind(a.l, RSub(target, r))
               [] a.op = "-"   -> Unwind(a.l, RAdd(target, r))
               [] a.op = "mul" -> Unwind(a.l, RDiv(target, r))
               [] a.op = "div" -> Unwind(a.l, RMul(target, r))

----------------------------------------------------------------------------
(* generateProblem: the difficulty profile and the choice of family.       *)

\* Math.floor(Math.random() * n) for the small n of an operator choice:
\* every value.
Floor(n) == 0..(n - 1)

\* NumTerms with a wider step per term.
C5_NumTermsMutant(eff) == Min(25, 2 + (eff \div 50000))

NumTerms(eff) == Min(25, 2 + (eff \div 40000))

ComponentMaxVal(eff) == Min(10000, 10 + (eff \div 100))

\* ZenLevels without the cap of 100.
C4_ZenLevelsMutant(lvl) == {k + 1 : k \in Pick(lvl)}

\* The effective levels a Zen Moment can draw.
ZenLevels(lvl) == {k + 1 : k \in Pick(Min(lvl, 100))}

CanDoQuad(s, lvl) == s.allowQuadratic /\ lvl >= 500

\* CanDoLinear with a lower threshold.
C3_CanDoLinearMutant(s, lvl) == s.allowLinear /\ lvl >= 200

CanDoLinear(s, lvl) == s.allowLinear /\ lvl >= 250

\* The families the draws can select outside a Zen Moment.
Types(s, lvl) ==
    IF CanDoQuad(s, lvl)
    THEN {IF chance < 30 THEN "quadratic"
          ELSE IF chance < 60 /\ CanDoLinear(s, lvl) THEN "linear"
          ELSE "arithmetic" : chance \in Random}
    ELSE IF CanDoLinear(s, lvl)
    THEN {IF r < 40 THEN "linear" ELSE "arithmetic" : r \in Random}
    ELSE {"arithmetic"}

\* Every outcome of lines 10-35 for one call: the Zen draw, the effective
\* level and the family.
Profiles(s, lvl) ==
    UNION {IF r < 15
           THEN {[zen |-> TRUE, eff |-> e, type |-> "arithmetic"] :
                    e \in ZenLevels(lvl)}
           ELSE {[zen |-> FALSE, eff |-> lvl, type |-> t] : t \in Types(s, lvl)}
           : r \in Random}

NoProblem == [question |-> <<>>, answer |-> 0, level |-> 0]

\* The profile's assignments, shared by the three branches of the dispatch.
SetProfile(p) ==
    /\ isZenMoment' = p.zen
    /\ effectiveLevel' = p.eff
    /\ numTerms' = NumTerms(p.eff)
    /\ componentMaxVal' = ComponentMaxVal(p.eff)
    /\ type' = p.type

----------------------------------------------------------------------------
(* generateArithmeticProblem.                                              *)

\* Operators with the division sign from effective level 100 on.
C10_OperatorsMutant(eff) ==
    IF eff >= 100 THEN <<Sym("+"), Sym("-"), Sym("mul"), Sym("div")>>
    ELSE <<Sym("+"), Sym("-"), Sym("mul")>>

Operators(eff) ==
    IF eff > 100 THEN <<Sym("+"), Sym("-"), Sym("mul"), Sym("div")>>
    ELSE <<Sym("+"), Sym("-"), Sym("mul")>>

LogTerms ==
    UNION {LET base == IF r > 50 THEN 2 ELSE 10
           IN  {Tok(IF base = 2 THEN "log2" ELSE "log10", Pow(base, e + 1)) :
                    e \in Pick(IF base = 2 THEN 6 ELSE 3)}
           : r \in Random}

RootTerms == {Tok("root", (k + 2) * (k + 2)) : k \in Pick(15)}

PowerTerms == {Tok("sq", k + 2) : k \in Pick(10)}

LiteralTerms(cap) == {Tok("num", k + 1) : k \in Pick(cap)}

\* The term one iteration can draw (lines 53-71).
TermTexts(eff, cap) ==
    UNION {IF eff > 300 /\ rand < 10 THEN LogTerms
           ELSE IF eff > 150 /\ rand < 15 THEN RootTerms
           ELSE IF eff > 60 /\ rand < 20 THEN PowerTerms
           ELSE LiteralTerms(cap)
           : rand \in Random}

\* DivideStep that divides the expression so far without rewriting it.
C9_DivideStepMutant(expr, divisor) ==
    expr \o <<Sym("div"), Tok("num", divisor)>>

\* Lines 78-82: the expression so far, times the divisor, in parentheses,
\* and then divided by the divisor.
DivideStep(expr, divisor) ==
    <<Sym("(")>> \o expr \o <<Sym("mul"), Tok("num", divisor), Sym(")")>>
        \o <<Sym("div"), Tok("num", divisor)>>

\* Line 84.
PushStep(expr, op, termText) == expr \o <<op, termText>>

\* Line 99.
Accepted(answer) ==
    IsInteger(answer) /\ answer.n >= -1000000 /\ answer.n <= 10000000

GenerateArithmetic ==
    /\ pc = "call"
    /\ \E p \in Profiles(settings, level) :
        /\ p.type = "arithmetic"
        /\ SetProfile(p)
    /\ pc' = "arith"
    /\ expression' = <<>>
    /\ i' = 0
    /\ depth' = 1
    /\ UNCHANGED frame
    /\ UNCHANGED <<level, settings, x, currentVal, expressionParts, problem>>

\* One iteration of the loop of lines 51-87.
ArithTerm ==
    /\ pc = "arith"
    /\ i < numTerms
    /\ \E termText \in TermTexts(effectiveLevel, componentMaxVal) :
        IF i = 0
        THEN expression' = <<termText>>
        ELSE \E k \in Floor(Len(Operators(effectiveLevel))) :
                LET op == Operators(effectiveLevel)[k + 1]
                IN  IF op.k = "div"
                    THEN \E dv \in Pick(10) :
                            expression' = DivideStep(expression, dv + 2)
                    ELSE expression' = PushStep(expression, op, termText)
    /\ i' = i + 1
    /\ UNCHANGED frame
    /\ UNCHANGED <<pc, level, settings, isZenMoment, effectiveLevel, numTerms,
                   componentMaxVal, type, depth, x, currentVal,
                   expressionParts, problem>>

\* Lines 89-101: the expression evaluates to an integer in range.
ArithReturn ==
    /\ pc = "arith"
    /\ i = numTerms
    /\ Accepted(JSEval(expression))
    /\ problem' = [question |-> expression, answer |-> JSEval(expression).n,
                   level |-> effectiveLevel]
    /\ pc' = "done"
    /\ UNCHANGED frame
    /\ UNCHANGED <<level, settings, isZenMoment, effectiveLevel, numTerms,
                   componentMaxVal, type, expression, i, depth, x, currentVal,
                   expressionParts>>

\* Line 104: the expression is rejected and the synthesizer calls itself.
ArithRetry ==
    /\ pc = "arith"
    /\ i = numTerms
    /\ ~Accepted(JSEval(expression))
    /\ ~tailCalls
    /\ depth < StackLimit
    /\ depth' = depth + 1
    /\ expression' = <<>>
    /\ i' = 0
    /\ UNCHANGED frame
    /\ UNCHANGED <<pc, level, settings, isZenMoment, effectiveLevel, numTerms,
                   componentMaxVal, type, x, currentVal, expressionParts,
                   problem>>

\* Line 104 on an engine with proper tail calls: the call is the operand of
\* the function's last return, in strict code, so it takes the place of the
\* activation that makes it and the stack does not grow.
ArithTailRetry ==
    /\ pc = "arith"
    /\ i = numTerms
    /\ ~Accepted(JSEval(expression))
    /\ tailCalls
    /\ expression' = <<>>
    /\ i' = 0
    /\ UNCHANGED frame
    /\ UNCHANGED <<pc, level, settings, isZenMoment, effectiveLevel, numTerms,
                   componentMaxVal, type, depth, x, currentVal, expressionParts,
                   problem>>

\* Line 104 with the stack full: the call raises a RangeError, which no
\* activation catches (the call is outside the try block).
ArithStackOverflow ==
    /\ pc = "arith"
    /\ i = numTerms
    /\ ~Accepted(JSEval(expression))
    /\ ~tailCalls
    /\ depth >= StackLimit
    /\ pc' = "error"
    /\ UNCHANGED frame
    /\ UNCHANGED <<level, settings, isZenMoment, effectiveLevel, numTerms,
                   componentMaxVal, type, expression, i, depth, x, currentVal,
                   expressionParts, problem>>

----------------------------------------------------------------------------
(* generateComplexLinearEquation.                                          *)

ops == <<"+", "-", "*", "/">>

EquationTerms(n) == Min(5, n)

Wrap(parts, op, val) ==
    <<Sym("(")>> \o parts \o <<Sym(op), Tok("num", val), Sym(")")>>

\* StepVal that adds in the "-" branch.
C11_StepValMutant(cur, op, val) ==
    CASE op = "+" -> cur + val
      [] op = "-" -> cur + val
      [] op = "*" -> cur * val

\* Lines 122-130: the value after a "+", "-" or "*" step.
StepVal(cur, op, val) ==
    CASE op = "+" -> cur + val
      [] op = "-" -> cur - val
      [] op = "*" -> cur * val

\* Lines 137 and 144: the value after a "/" step.
DivStepVal(cur, val, d) == (cur * val) + d

\* Lines 138 and 145: the text after a "/" step.
DivStepParts(parts, val, d) ==
    <<Sym("(")>> \o (Wrap(parts, "*", val) \o <<Sym("/"), Tok("num", val)>>)
        \o <<Sym("+"), Tok("num", d), Sym(")")>>

\* Lines 150-151: the operator signs of the displayed text.
ShowToken(t) ==
    CASE t.k = "*" -> Sym("mul")
      [] t.k = "/" -> Sym("div")
      [] OTHER     -> t

\* Line 152: a text that starts with "(" and ends with ")" loses both.
StripOuter(ts) ==
    IF Len(ts) >= 2 /\ ts[1].k = "(" /\ ts[Len(ts)].k = ")"
    THEN SubSeq(ts, 2, Len(ts) - 1)
    ELSE ts

FinalExpr(parts) == StripOuter([j \in 1..Len(parts) |-> ShowToken(parts[j])])

GenerateLinear ==
    /\ pc = "call"
    /\ \E p \in Profiles(settings, level) :
        /\ p.type = "linear"
        /\ SetProfile(p)
    /\ \E k \in Pick(50) :
        /\ x' = k + 1
        /\ currentVal' = k + 1
    /\ expressionParts' = <<Sym("x")>>
    /\ i' = 0
    /\ pc' = "linear"
    /\ UNCHANGED frame
    /\ UNCHANGED <<level, settings, expression, depth, problem>>

\* One iteration of the loop of lines 118-147.  The "/" branch also draws
\* multiplier (line 133) and computes target (line 142), which nothing reads.
LinearStep ==
    /\ pc = "linear"
    /\ i < EquationTerms(numTerms) - 1
    /\ \E k \in Floor(Len(ops)), v \in Pick(15) :
        LET op == ops[k + 1]
            val == v + 1
        IN  IF op = "/"
            THEN \E d \in Pick(5) :
                    /\ currentVal' = DivStepVal(currentVal, val, d + 2)
                    /\ expressionParts' = DivStepParts(expressionParts, val, d + 2)
            ELSE /\ currentVal' = StepVal(currentVal, op, val)
                 /\ expressionParts' = Wrap(expressionParts, op, val)
    /\ i' = i + 1
    /\ UNCHANGED frame
    /\ UNCHANGED <<pc, level, settings, isZenMoment, effectiveLevel, numTerms,
                   componentMaxVal, type, expression, depth, x, problem>>

\* Lines 149-158.
LinearReturn ==
    /\ pc = "linear"
    /\ i = EquationTerms(numTerms) - 1
    /\ problem' = [question |-> FinalExpr(expressionParts) \o <<Tok("=", currentVal)>>,
                   answer |-> x, level |-> level]
    /\ pc' = "done"
    /\ UNCHANGED frame
    /\ UNCHANGED <<level, settings, isZenMoment, effectiveLevel, numTerms,
                   componentMaxVal, type, expression, i, depth, x, currentVal,
                   expressionParts>>

----------------------------------------------------------------------------
(* generateQuadraticEquation.                                              *)

quadOps == <<"+", "-", "*">>

\* Line 168.
QuadBase(xv, b, c) == (xv * xv) + (b * xv) + c

\* Line 169: x squared, "+ bx" unless b is 0, "+ c" unless c is 0.
QuadText(b, c) ==
    <<Sym("xsq")>>
        \o (IF b > 0 THEN <<Sym("+"), Tok("cx", b)>> ELSE <<>>)
        \o (IF c # 0 THEN <<Sym("+"), Tok("num", c)>> ELSE <<>>)

\* QuadResult that adds in the "-" branch.
C8_QuadResultMutant(base, op, val) ==
    CASE op = "+" -> base + val
      [] op = "-" -> base + val
      [] op = "*" -> base * val

\* Lines 176-185: the extra step on the value ...
QuadResult(base, op, val) ==
    CASE op = "+" -> base + val
      [] op = "-" -> base - val
      [] op = "*" -> base * val

\* ... and on the text.
QuadQuestion(text, op, val) ==
    <<Sym("(")>> \o text
        \o <<Sym(")"), Sym(IF op = "*" THEN "mul" ELSE op), Tok("num", val)>>

GenerateQuadratic ==
    /\ pc = "call"
    /\ \E p \in Profiles(settings, level) :
        /\ p.type = "quadratic"
        /\ SetProfile(p)
    /\ \E xk \in Pick(20), b \in Pick(10), c \in Pick(20),
          k \in Floor(Len(quadOps)), v \in Pick(10) :
        LET op == quadOps[k + 1]
            val == v + 1
            result == QuadResult(QuadBase(xk + 1, b, c), op, val)
        IN  problem' = [question |-> QuadQuestion(QuadText(b, c), op, val)
                                        \o <<Tok("=", result)>>,
                        answer |-> xk + 1, level |-> level]
    /\ pc' = "done"
    /\ UNCHANGED frame
    /\ UNCHANGED <<level, settings, expression, i, depth, x, currentVal,
                   expressionParts>>

----------------------------------------------------------------------------
(* The calls of generateProblem.                                           *)

\* The levels called with: each threshold of the generator and its
\* predecessor, under every settings record, and the first level with three
\* terms, under the settings that allow every family.
Levels == {1, 60, 61, 100, 101, 150, 151, 249, 250, 300, 301, 499, 500}

DeepLevels == {40000}

Settings == [allowLinear : BOOLEAN, allowQuadratic : BOOLEAN]

\* App before its first effect has run, with nothing saved.
Mounted ==
    /\ gameState = [score |-> 0, level |-> 1, bestLevel |-> 1,
                    currentProblem |-> null, status |-> "IDLE"]
    /\ userInput = "empty"
    /\ timers = [correct |-> 0, wrong |-> 0]
    /\ generated = 0

Idle ==
    /\ isZenMoment = FALSE
    /\ type = "arithmetic"
    /\ expression = <<>>
    /\ i = 0
    /\ depth = 0
    /\ x = 0
    /\ currentVal = 0
    /\ expressionParts = <<>>
    /\ problem = NoProblem
    /\ Mounted

Init ==
    /\ pc = "call"
    /\ tailCalls \in BOOLEAN
    /\ \/ level \in Levels /\ settings \in Settings
       \/ level \in DeepLevels
          /\ settings = [allowLinear |-> TRUE, allowQuadratic |-> TRUE]
    /\ effectiveLevel = level
    /\ numTerms = NumTerms(level)
    /\ componentMaxVal = ComponentMaxVal(level)
    /\ Idle

Next ==
    \/ GenerateArithmetic
    \/ ArithTerm
    \/ ArithReturn
    \/ ArithRetry
    \/ ArithTailRetry
    \/ ArithStackOverflow
    \/ GenerateLinear
    \/ LinearStep
    \/ LinearReturn
    \/ GenerateQuadratic

Spec == Init /\ [][Next]_vars

----------------------------------------------------------------------------
(* The profile along the levels, outside a Zen Moment (lines 13-20).       *)

\* The walk starts at level 1 and at every thousandth level after it, and
\* goes up level by level.
ScaleStarts == {1 + (1000 * k) : k \in 0..(MaxLevel \div 1000)}

InitScale ==
    /\ tailCalls = FALSE
    /\ pc = "scale"
    /\ level \in {l \in ScaleStarts : l <= MaxLevel}
    /\ settings = [allowLinear |-> FALSE, allowQuadratic |-> FALSE]
    /\ effectiveLevel = level
    /\ numTerms = NumTerms(level)
    /\ componentMaxVal = ComponentMaxVal(level)
    /\ Idle

NextLevel ==
    /\ pc = "scale"
    /\ level < MaxLevel
    /\ level' = level + 1
    /\ effectiveLevel' = level + 1
    /\ numTerms' = NumTerms(level + 1)
    /\ componentMaxVal' = ComponentMaxVal(level + 1)
    /\ UNCHANGED frame
    /\ UNCHANGED <<pc, settings, isZenMoment, type, expression, i, depth, x,
                   currentVal, expressionParts, problem>>

SpecScale == InitScale /\ [][NextLevel]_vars

----------------------------------------------------------------------------
(* The calls that select the linear family: the first linear level, the    *)
(* first level with three terms and the first with six, where the          *)
(* equation is capped at five.                                             *)

LinearLevels == {250, 40000, 160000}

InitLinear ==
    /\ tailCalls = FALSE
    /\ pc = "call"
    /\ level \in LinearLevels
    /\ settings \in {s \in Settings : s.allowLinear}
    /\ effectiveLevel = level
    /\ numTerms = NumTerms(level)
    /\ componentMaxVal = ComponentMaxVal(level)
    /\ Idle

NextLinear ==
    \/ GenerateLinear
    \/ LinearStep
    \/ LinearReturn

SpecLinear == InitLinear /\ [][NextLinear]_vars

----------------------------------------------------------------------------
(* Reading a returned problem.                                             *)

Kinds(ts) == {ts[j].k : j \in 1..Len(ts)}

CountOf(ts, kinds) == Cardinality({j \in 1..Len(ts) : ts[j].k \in kinds})

OperandKinds == {"num", "sq", "root", "log2", "log10"}
OperatorKinds == {"+", "-", "mul", "div"}

IsQuadratic(q) == "xsq" \in Kinds(q)
IsLinear(q) == "x" \in Kinds(q)
IsArithmetic(q) == ~IsQuadratic(q) /\ ~IsLinear(q)

Returned == pc = "done"

\* The two sides of an equation "lhs = rhs. Find x".
Lhs(q) == SubSeq(q, 1, Len(q) - 1)
Rhs(q) == q[Len(q)].n

----------------------------------------------------------------------------
(* The claims.                                                             *)

\* C1: the answer of every returned problem is consistent with its
\* question: an arithmetic question evaluates to the answer, and the left
\* side of an equation, with the answer for x, evaluates to the right side.
C1_AnswerConsistent ==
    Returned =>
        IF IsArithmetic(problem.question)
        THEN MathValue(Parse(problem.question), 0) = Int2Rat(problem.answer)
        ELSE MathValue(Parse(Lhs(problem.question)), problem.answer)
                = Int2Rat(Rhs(problem.question))

\* C2: no call of generateProblem ends in an error propagated to the
\* caller.
C2_NeverThrows == pc # "error"

\* C3: a linear problem is returned only with allowLinear, level >= 250 and
\* no Zen Moment; a quadratic one only with allowQuadratic, level >= 500 and
\* no Zen Moment; below 250 every problem is arithmetic, below 500 none is
\* quadratic.
C3_FamilyEligibility ==
    Returned =>
        /\ IsLinear(problem.question) =>
              settings.allowLinear /\ level >= 250 /\ ~isZenMoment
        /\ IsQuadratic(problem.question) =>
              settings.allowQuadratic /\ level >= 500 /\ ~isZenMoment
        /\ level < 250 => IsArithmetic(problem.question)
        /\ level < 500 => ~IsQuadratic(problem.question)

C3_Witness ==
    /\ Returned
    /\ level = 250
    /\ IsLinear(problem.question)

\* C4: a problem of a Zen Moment is arithmetic and reports the effective
\* level, in 1..min(level, 100), so less than a level above 100; any other
\* problem reports the level called with.
C4_ReprieveLevel ==
    Returned =>
        IF isZenMoment
        THEN /\ IsArithmetic(problem.question)
             /\ problem.level = effectiveLevel
             /\ problem.level >= 1
             /\ problem.level <= Min(level, 100)
             /\ level > 100 => problem.level < level
        ELSE problem.level = level

C4_Witness ==
    /\ Returned
    /\ isZenMoment
    /\ level = 500
    /\ problem.level = 100

C6_LinearRoundTrip ==
    (Returned /\ IsLinear(problem.question)) =>
        /\ Unwind(Parse(Lhs(problem.question)),
                  Int2Rat(Rhs(problem.question))) = Int2Rat(problem.answer)
        /\ problem.answer \in 1..50

\* A step of the arithmetic loop that drew the division sign.
DivisionDrawn ==
    /\ pc = "arith"
    /\ pc' = "arith"
    /\ i' = i + 1
    /\ i >= 1
    /\ expression'[Len(expression') - 1].k = "div"

\* C7: a step that draws the division sign rewrites the expression E as
\* (E times d) divided by d with d in 2..11, and the rewritten expression
\* has the value of E.
C7_DivisionNoOp ==
    [][DivisionDrawn =>
          /\ expression'[Len(expression')].n \in 2..11
          /\ JSEval(expression') = JSEval(expression)]_vars

\* C8: a returned quadratic question has b in 1..9 when shown, c in 1..19
\* when shown, one extra operation plus, minus or times with v in 1..10; its
\* right side is the value of its left side at the answer, the answer is in
\* 1..20, and no other positive integer satisfies the equation.
C8_Quadratic ==
    (Returned /\ IsQuadratic(problem.question)) =>
        LET lhs == Parse(Lhs(problem.question))
            rhs == Int2Rat(Rhs(problem.question))
            q == problem.question
        IN  /\ problem.answer \in 1..20
            /\ \A j \in 1..Len(q) : q[j].k = "cx" => q[j].n \in 1..9
            /\ \A j \in 1..(Len(q) - 4) : q[j].k = "num" => q[j].n \in 1..19
            /\ q[Len(q) - 2].k \in {"+", "-", "mul"}
            /\ q[Len(q) - 1].k = "num" /\ q[Len(q) - 1].n \in 1..10
            /\ MathValue(lhs, problem.answer) = rhs
            /\ \A n \in 1..MaxRoot : MathValue(lhs, n) = rhs => n = problem.answer

C8_Witness ==
    /\ Returned
    /\ IsQuadratic(problem.question)
    /\ "mul" \in Kinds(problem.question)
    /\ "cx" \in Kinds(problem.question)
    /\ problem.answer = 20

\* The returned problem of the call generateProblem(1, ...) is arithmetic
\* with two literal terms in 1..10 joined by plus, minus or times, and its
\* answer is in range.
LevelOneShape ==
    level = 1 =>
        /\ IsArithmetic(problem.question)
        /\ Len(problem.question) = 3
        /\ problem.question[1].k = "num" /\ problem.question[1].n \in 1..10
        /\ problem.question[2].k \in {"+", "-", "mul"}
        /\ problem.question[3].k = "num" /\ problem.question[3].n \in 1..10
        /\ problem.answer >= -1000000 /\ problem.answer <= 10000000

\* C9 as stated: a returned arithmetic question has exactly numTerms
\* operands joined by numTerms - 1 operators.
C9_ExactlyNTerms ==
    (Returned /\ IsArithmetic(problem.question)) =>
        /\ CountOf(problem.question, OperandKinds) = numTerms
        /\ CountOf(problem.question, OperatorKinds) = numTerms - 1
        /\ LevelOneShape

\* C9 as amended: a returned arithmetic question with k division signs has
\* numTerms + k operands joined by numTerms - 1 + k operators, so exactly
\* numTerms operands when no division was drawn, as at every effective
\* level up to 100.
C9_TermCount ==
    (Returned /\ IsArithmetic(problem.question)) =>
        LET k == CountOf(problem.question, {"div"})
        IN  /\ CountOf(problem.question, OperandKinds) = numTerms + k
            /\ CountOf(problem.question, OperatorKinds) = numTerms - 1 + k
            /\ effectiveLevel <= 100 => k = 0
            /\ LevelOneShape

C9_Witness ==
    /\ Returned
    /\ IsArithmetic(problem.question)
    /\ numTerms = 3
    /\ CountOf(problem.question, {"div"}) = 2
    /\ CountOf(problem.question, OperandKinds) = 5

\* C10: the expression of the arithmetic synthesizer holds a division sign
\* only above effective level 100, a logarithm only above 300, a root only
\* above 150 and a square only above 60; up to 60 every term is a literal
\* in 1..componentMaxVal and every operator is plus, minus or times.
C10_NotationGating ==
    pc \in {"arith", "done"} /\ type = "arithmetic" =>
        LET q == IF pc = "done" THEN problem.question ELSE expression
        IN  /\ "div" \in Kinds(q) => effectiveLevel > 100
            /\ Kinds(q) \cap {"log2", "log10"} # {} => effectiveLevel > 300
            /\ "root" \in Kinds(q) => effectiveLevel > 150
            /\ "sq" \in Kinds(q) => effectiveLevel > 60
            /\ effectiveLevel <= 60 =>
                  /\ Kinds(q) \subseteq {"num", "+", "-", "mul"}
                  /\ \A j \in 1..Len(q) :
                        q[j].k = "num" => q[j].n \in 1..componentMaxVal

C10_Witness ==
    /\ Returned
    /\ effectiveLevel = 101
    /\ "div" \in Kinds(problem.question)

\* The deltas of a linear question, each with the sign of the operator
\* before it, summed from token j on.
RECURSIVE SignedSum(_, _)
SignedSum(q, j) ==
    IF j > Len(q) THEN 0
    ELSE (IF q[j].k = "num"
          THEN (IF q[j - 1].k = "-" THEN -q[j].n ELSE q[j].n)
          ELSE 0) + SignedSum(q, j + 1)

\* The steps a linear question shows: one per operator, the three
\* operators of a "/" step counted once.
StepsShown(q) == CountOf(q, OperatorKinds) - (2 * CountOf(q, {"div"}))

Regenerates ==
    /\ pc = "arith"
    /\ i = numTerms
    /\ ~Accepted(JSEval(expression))
    /\ pc' = "arith"

\* C12: every regeneration of the arithmetic synthesizer is counted against
\* a fixed ceiling, which the count never exceeds, and a rejection at the
\* ceiling ends the call in an error instead of another attempt.
C12_BoundedRetry ==
    [][/\ Regenerates => depth' = depth + 1 /\ depth' <= StackLimit
       /\ (pc = "arith" /\ i = numTerms /\ ~Accepted(JSEval(expression))
              /\ depth >= StackLimit) => pc' = "error"]_vars

----------------------------------------------------------------------------
(* The game loop of App.tsx around the generator.  Each handler, effect    *)
(* and timer callback runs to completion and the component renders before  *)
(* the next one starts, so a handler reads the state the last one left.    *)
(* A call of generateProblem is taken as a whole here: it returns a        *)
(* problem, known by the number of the call.                               *)

\* Everything the game never writes.
generatorState == <<pc, level, isZenMoment, effectiveLevel, numTerms,
                    componentMaxVal, type, expression, i, depth, x,
                    currentVal, expressionParts, problem, tailCalls>>

Inputs == {"empty", "right", "wrong"}

\* The text of the answer box outlives the problem it was typed for, and
\* is then right or wrong for the next one.
Stale(input) == IF input = "empty" THEN {"empty"} ELSE {"right", "wrong"}

\* useEffect, lines 42-48.
FreshProblem ==
    /\ pc = "game"
    /\ gameState.currentProblem = null
    /\ generated < MaxProblems
    /\ generated' = generated + 1
    /\ gameState' = [gameState EXCEPT !.currentProblem = generated + 1,
                                      !.status = "PLAYING"]
    /\ userInput' \in Stale(userInput)
    /\ UNCHANGED <<timers, settings, generatorState>>

\* onChange of the answer box.
ChangeInput ==
    /\ pc = "game"
    /\ userInput' \in Inputs \ {userInput}
    /\ UNCHANGED <<gameState, timers, generated, settings, generatorState>>

\* handleCheckAnswer, the update of a correct answer.
Credit(g) ==
    [g EXCEPT !.score = g.score + (g.level \div 5) + 10,
              !.level = g.level + 1,
              !.bestLevel = IF g.bestLevel > g.level + 1 THEN g.bestLevel
                            ELSE g.level + 1,
              !.status = "CORRECT"]

\* handleCheckAnswer with the right answer in the box: the credit, and the
\* replacement scheduled 500 ms later.
CheckAnswerCorrect ==
    /\ pc = "game"
    /\ gameState.currentProblem # null
    /\ userInput = "right"
    /\ gameState.score < MaxScore
    /\ timers.correct < MaxPending
    /\ gameState' = Credit(gameState)
    /\ timers' = [timers EXCEPT !.correct = @ + 1]
    /\ UNCHANGED <<userInput, generated, settings, generatorState>>

\* handleCheckAnswer with another answer in the box.
CheckAnswerWrong ==
    /\ pc = "game"
    /\ gameState.currentProblem # null
    /\ userInput = "wrong"
    /\ timers.wrong < MaxPending
    /\ gameState' = [gameState EXCEPT !.status = "WRONG"]
    /\ timers' = [timers EXCEPT !.wrong = @ + 1]
    /\ UNCHANGED <<userInput, generated, settings, generatorState>>

\* The callback scheduled by a correct answer.
CorrectTimeout ==
    /\ pc = "game"
    /\ timers.correct > 0
    /\ generated < MaxProblems
    /\ generated' = generated + 1
    /\ gameState' = [gameState EXCEPT !.currentProblem = generated + 1,
                                      !.status = "PLAYING"]
    /\ userInput' = "empty"
    /\ timers' = [timers EXCEPT !.correct = @ - 1]
    /\ UNCHANGED <<settings, generatorState>>

\* The callback scheduled by a wrong answer.
WrongTimeout ==
    /\ pc = "game"
    /\ timers.wrong > 0
    /\ gameState' = [gameState EXCEPT !.status = "PLAYING"]
    /\ timers' = [timers EXCEPT !.wrong = @ - 1]
    /\ UNCHANGED <<userInput, generated, settings, generatorState>>

JumpToLevel ==
    /\ pc = "game"
    /\ \E targetLevel \in 1..MaxJump :
           gameState' = [gameState EXCEPT !.level = targetLevel,
                                          !.currentProblem = null,
                                          !.status = "IDLE"]
    /\ UNCHANGED <<userInput, timers, generated, settings, generatorState>>

toggleSetting ==
    /\ pc = "game"
    /\ \E key \in {"allowLinear", "allowQuadratic"} :
           settings' = [settings EXCEPT ![key] = ~@]
    /\ gameState' = [gameState EXCEPT !.currentProblem = null]
    /\ UNCHANGED <<userInput, timers, generated, generatorState>>

InitGame ==
    /\ tailCalls = FALSE
    /\ pc = "game"
    /\ level = 1
    /\ settings = [allowLinear |-> TRUE, allowQuadratic |-> TRUE]
    /\ effectiveLevel = level
    /\ numTerms = NumTerms(level)
    /\ componentMaxVal = ComponentMaxVal(level)
    /\ Idle

NextGame ==
    \/ FreshProblem
    \/ ChangeInput
    \/ CheckAnswerCorrect
    \/ CheckAnswerWrong
    \/ CorrectTimeout
    \/ WrongTimeout
    \/ JumpToLevel
    \/ toggleSetting

SpecGame == InitGame /\ [][NextGame]_vars

\* C13: while a credited problem waits for its replacement (status CORRECT,
\* the same problem on display after the step), the level and the score do
\* not change again, and at most one replacement is pending.
C13_CreditedOnce ==
    /\ [][(gameState.status = "CORRECT"
             /\ gameState'.currentProblem = gameState.currentProblem)
          => /\ gameState'.level = gameState.level
             /\ gameState'.score = gameState.score]_vars
    /\ [](timers.correct <= 1)

====
